---- MODULE Spec2Model ----
(***************************************************************************)
(* Model of src/tools/iconset/iconset.cpp: the reference-counted Icon and  *)
(* Iconset handles, their shared Private data, and the IconsetFactory      *)
(* registry.                                                               *)
(***************************************************************************)
EXTENDS Integers, Sequences, FiniteSets

VARIABLES
    ih,          \* Icon handle -> its d pointer (0: handle not constructed)
    ip,          \* heap of Icon::Private objects (NoPriv: slot not allocated)
    unmatched,   \* per Icon::Private: activated() calls not yet matched by a stop()
    sh,          \* Iconset handle -> its d pointer (0: handle not constructed)
    sp,          \* heap of Iconset::Private objects (NoSet: slot not allocated)
    fac,         \* IconsetFactoryPrivate: iconsets and emptyPixmap
    stored,      \* per Iconset::Private: the names Icons were stored under
    before,      \* <<g, h>>: Iconset g was added to the factory before h
    fault        \* "none", or the undefined behaviour the program has run into

iconVars == <<ih, ip, unmatched>>
setVars == <<sh, sp, fac, stored, before>>
vars == <<ih, ip, unmatched, sh, sp, fac, stored, before, fault>>

\* ------------------------------------------------------------------------
\* Bounds
\* ------------------------------------------------------------------------
NumIcons == 2          \* Icon handles of the model
MaxVal == 1            \* strings, images: values 0..MaxVal, 0 is the null value
MaxActivated == 2      \* cap of activatedCount
MaxGarbage == 1        \* an uninitialised int reads as -MaxGarbage..MaxGarbage

NumSets == 2           \* Iconset handles of the model
NumNames == 2          \* Icon names: 1..NumNames
NumData == 1           \* Icons of the caller, each with its own Icon::Private

IconHandles == 1..NumIcons
IconPrivIds == 1..NumIcons
Vals == 0..MaxVal
GarbageInts == (0 - MaxGarbage)..MaxGarbage
NoPriv == [count |-> 0]
NoAnim == [frames |-> <<>>, pos |-> -1, paused |-> TRUE, upd |-> 0]

SetHandles == 1..NumSets
SetPrivIds == 1..NumSets
Names == 1..NumNames
NoSet == [count |-> 0]

\* no Icon handle exists
IconIdle ==
    /\ ih = [h \in IconHandles |-> 0]
    /\ ip = [p \in IconPrivIds |-> NoPriv]
    /\ unmatched = [p \in IconPrivIds |-> 0]

\* iconsets = 0, emptyPixmap = 0
FactoryInit == [null |-> TRUE, iconsets |-> <<>>, emptyPixmap |-> FALSE]

\* no Iconset handle exists
SetIdle ==
    /\ sh = [h \in SetHandles |-> 0]
    /\ sp = [p \in SetPrivIds |-> NoSet]
    /\ fac = FactoryInit
    /\ stored = [p \in SetPrivIds |-> {}]
    /\ before = {}

\* the animations handed to setAnim / decoded by loadFromData
AnimSamples == {<<>>, <<1>>, <<1, 0>>}

\* ------------------------------------------------------------------------
\* Anim (anim.h): frames, the current frame, the pause flag, and the number
\* of connections of its update signal to Icon::Private::animUpdate
\* ------------------------------------------------------------------------
AnimNew(fr, paused) == [frames |-> fr, pos |-> 0, paused |-> paused, upd |-> 0]
AnimCopy(a) == [a EXCEPT !.upd = 0]
numFrames(a) == Len(a.frames)
pause(a) == [a EXCEPT !.paused = TRUE]
unpause(a) == [a EXCEPT !.paused = FALSE]
restart(a) == [a EXCEPT !.pos = 0]
disconnectUpdate(a) == [a EXCEPT !.upd = 0]
connectUpdate(a) == [a EXCEPT !.upd = @ + 1]
stripFirstFrame(a) == [a EXCEPT !.frames = IF @ = <<>> THEN @ ELSE Tail(@), !.pos = 0]

\* ------------------------------------------------------------------------
\* Icon::Private
\* ------------------------------------------------------------------------
IconPrivateNew ==
    [count |-> 1, name |-> 0, regExp |-> 0, text |-> 0, sound |-> 0,
     impix |-> 0, anim |-> NoAnim, activatedCount |-> 0, inst |-> {}]

\* Private(const Private &from): activatedCount is not initialised, g is
\* the value it happens to hold
IconPrivateCopy(from, g) ==
    [count |-> 1, name |-> from.name, regExp |-> from.regExp, text |-> from.text,
     sound |-> from.sound, impix |-> from.impix,
     anim |-> IF from.anim = NoAnim THEN NoAnim ELSE AnimCopy(from.anim),
     activatedCount |-> g, inst |-> {}]

connectInstance(P, h) == [P EXCEPT !.inst = @ \cup {h}]
disconnectInstance(P, h) == [P EXCEPT !.inst = @ \ {h}]

\* Q3Shared::deref followed by "delete d" when it returns true
IconDeref(heap, p) ==
    IF heap[p].count = 1 THEN [heap EXCEPT ![p] = NoPriv]
    ELSE [heap EXCEPT ![p].count = @ - 1]

FreeIconPriv(heap) ==
    CHOOSE p \in IconPrivIds :
        heap[p] = NoPriv /\ \A q \in IconPrivIds : heap[q] = NoPriv => p <= q

\* a world is the pair of the handles and the heap
World(h, p) == [ih |-> h, ip |-> p]
Cur == World(ih, ip)
D(W, h) == W.ip[W.ih[h]]
SetD(W, h, P) == [W EXCEPT !.ip[W.ih[h]] = P]

\* Icon::Icon()
IconCtor(W, h) ==
    LET p == FreeIconPriv(W.ip)
    IN World([W.ih EXCEPT ![h] = p],
             [W.ip EXCEPT ![p] = connectInstance(IconPrivateNew, h)])

\* Icon::~Icon()
IconDtor(W, h) ==
    LET p == W.ih[h]
        heap == [W.ip EXCEPT ![p] = disconnectInstance(@, h)]
    IN World([W.ih EXCEPT ![h] = 0], IconDeref(heap, p))

\* Icon::Icon(const Icon &from)
IconCopyCtor(W, h, from) ==
    LET p == W.ih[from]
    IN World([W.ih EXCEPT ![h] = p],
             [W.ip EXCEPT ![p] = connectInstance([@ EXCEPT !.count = @ + 1], h)])

\* Icon::operator=, for from.d other than d, or d shared
IconAssign(W, h, from) ==
    LET old == W.ih[h]
        heap1 == IconDeref([W.ip EXCEPT ![old] = disconnectInstance(@, h)], old)
        p == W.ih[from]
    IN World([W.ih EXCEPT ![h] = p],
             [heap1 EXCEPT ![p] = connectInstance([@ EXCEPT !.count = @ + 1], h)])

\* Icon::operator= with from.d = d and d unshared, up to "d = from.d":
\* deref() returns true and d is deleted, and d is set to from.d, the
\* Private just deleted; the d->ref() that follows writes to it
IconAssignSelf(W, h) ==
    LET p == W.ih[h]
    IN World(W.ih, IconDeref([W.ip EXCEPT ![p] = disconnectInstance(@, h)], p))

\* Icon::copy: h is the new Icon, the only handle of a copy of from's Private
IconCopy(W, h, from, g) ==
    LET p == FreeIconPriv(W.ip)
    IN World([W.ih EXCEPT ![h] = p],
             [W.ip EXCEPT ![p] = connectInstance(IconPrivateCopy(D(W, from), g), h)])

\* Icon::detach with Icon::copy: "*this = *i; delete i" leaves this as the
\* only handle of the copy
IconDetach(W, h, g) ==
    IF D(W, h).count # 1
    THEN LET old == W.ih[h]
             p == FreeIconPriv(W.ip)
             heap1 == [W.ip EXCEPT ![old] =
                          disconnectInstance([@ EXCEPT !.count = @ - 1], h)]
         IN World([W.ih EXCEPT ![h] = p],
                  [heap1 EXCEPT ![p] = connectInstance(IconPrivateCopy(W.ip[old], g), h)])
    ELSE W

\* Icon::setName, setRegExp, setText, setSound
IconSetName(W, h, v, g) == LET W1 == IconDetach(W, h, g) IN SetD(W1, h, [D(W1, h) EXCEPT !.name = v])
IconSetRegExp(W, h, v, g) == LET W1 == IconDetach(W, h, g) IN SetD(W1, h, [D(W1, h) EXCEPT !.regExp = v])
IconSetText(W, h, v, g) == LET W1 == IconDetach(W, h, g) IN SetD(W1, h, [D(W1, h) EXCEPT !.text = v])
IconSetSound(W, h, v, g) == LET W1 == IconDetach(W, h, g) IN SetD(W1, h, [D(W1, h) EXCEPT !.sound = v])

\* Icon::setImpix
IconSetImpix(W, h, v, doDetach, g) ==
    LET W1 == IF doDetach THEN IconDetach(W, h, g) ELSE W
    IN SetD(W1, h, [D(W1, h) EXCEPT !.impix = v])

\* Icon::activated on the Private
PrivActivated(P) ==
    LET P1 == [P EXCEPT !.activatedCount = @ + 1]
    IN IF P1.anim # NoAnim
       THEN [P1 EXCEPT !.anim = connectUpdate(disconnectUpdate(unpause(@)))]
       ELSE P1

\* Icon::stop on the Private
PrivStop(P) ==
    LET P1 == [P EXCEPT !.activatedCount = @ - 1]
    IN IF P1.activatedCount <= 0
       THEN LET P2 == [P1 EXCEPT !.activatedCount = 0]
            IN IF P2.anim # NoAnim
               THEN [P2 EXCEPT !.anim = restart(pause(@))]
               ELSE P2
       ELSE P1

IconActivated(W, h) == SetD(W, h, PrivActivated(D(W, h)))
IconStop(W, h) == SetD(W, h, PrivStop(D(W, h)))

\* Icon::setAnim; pz is the pause flag a newly constructed Anim has
IconSetAnim(W, h, fr, doDetach, g, pz) ==
    LET W1 == IF doDetach THEN IconDetach(W, h, g) ELSE W
        W2 == SetD(W1, h, [D(W1, h) EXCEPT !.anim = AnimNew(fr, pz)])
        W3 == IF numFrames(D(W2, h).anim) > 0
              THEN IconSetImpix(W2, h, D(W2, h).anim.frames[1], TRUE, g)
              ELSE W2
        W4 == IF numFrames(D(W3, h).anim) < 2
              THEN SetD(W3, h, [D(W3, h) EXCEPT !.anim = NoAnim])
              ELSE W3
    IN IF D(W4, h).anim # NoAnim /\ D(W4, h).activatedCount > 0
       THEN IconActivated(SetD(W4, h, [D(W4, h) EXCEPT !.activatedCount = 0]), h)
       ELSE W4

\* Icon::removeAnim
IconRemoveAnim(W, h, doDetach, g) ==
    LET W1 == IF doDetach THEN IconDetach(W, h, g) ELSE W
    IN IF D(W1, h).anim = NoAnim THEN W1
       ELSE LET W2 == IconStop(SetD(W1, h, [D(W1, h) EXCEPT !.activatedCount = 0]), h)
            IN SetD(W2, h, [D(W2, h) EXCEPT !.anim = NoAnim])

\* Icon::loadFromData; ba decodes to the frames fr as an animation and to
\* the image img (0: not an image)
IconLoadFromData(W, h, fr, img, isAnim, g, pz) ==
    LET W1 == IconDetach(W, h, g)
        W2 == IF isAnim THEN IconSetAnim(W1, h, fr, TRUE, g, pz) ELSE W1
        ret == isAnim /\ Len(fr) > 0
    IN IF ~ret /\ img # 0
       THEN SetD(W2, h, [D(W2, h) EXCEPT !.impix = img])
       ELSE W2

\* Icon::stripFirstAnimFrame
IconStripFirstAnimFrame(W, h, g) ==
    LET W1 == IconDetach(W, h, g)
    IN IF D(W1, h).anim # NoAnim
       THEN SetD(W1, h, [D(W1, h) EXCEPT !.anim = stripFirstFrame(@)])
       ELSE W1

\* ------------------------------------------------------------------------
\* Actions on Icon handles
\* ------------------------------------------------------------------------
Apply(W) == ih' = W.ih /\ ip' = W.ip

\* a Private that is new or gone has no activated() call pending
Pending ==
    unmatched' = [p \in IconPrivIds |->
                    IF ip'[p] = NoPriv \/ ip[p] = NoPriv THEN 0 ELSE unmatched[p]]

\* a fault ends the program: the properties of the data of Icons and
\* Iconsets are stated of the program while it runs
Running == fault = "none"
Live(h) == ih[h] # 0

\* the values an uninitialised activatedCount can hold; it is only read
\* when detach() copies the Private
Garbage(h) == IF D(Cur, h).count # 1 THEN GarbageInts ELSE {0}
\* the pause flag of a new Anim; an Anim without frames is always deleted,
\* one with a single frame stays in the Private the other handles keep
\* when setAnim(anim, false) detaches in setImpix
PauseFlags(fr) == IF Len(fr) >= 1 THEN BOOLEAN ELSE {TRUE}

NewIcon(h) ==
    /\ Running /\ ~Live(h)
    /\ Apply(IconCtor(Cur, h)) /\ Pending /\ UNCHANGED <<setVars, fault>>

DeleteIcon(h) ==
    /\ Running /\ Live(h)
    /\ Apply(IconDtor(Cur, h)) /\ Pending /\ UNCHANGED <<setVars, fault>>

CopyIcon(h, from) ==
    /\ Running /\ ~Live(h) /\ Live(from)
    /\ Apply(IconCopyCtor(Cur, h, from)) /\ Pending /\ UNCHANGED <<setVars, fault>>

\* operator=; "a = a" on an unshared Icon deletes d and then uses it
AssignIcon(h, from) ==
    /\ Running /\ Live(h) /\ Live(from)
    /\ IF h = from /\ D(Cur, h).count = 1
       THEN /\ Apply(IconAssignSelf(Cur, h)) /\ Pending
            /\ fault' = "use-after-free" /\ UNCHANGED setVars
       ELSE Apply(IconAssign(Cur, h, from)) /\ Pending /\ UNCHANGED <<setVars, fault>>

\* "new = from.copy()"
CopyOfIcon(h, from) ==
    /\ Running /\ ~Live(h) /\ Live(from)
    /\ \E g \in GarbageInts : Apply(IconCopy(Cur, h, from, g))
    /\ Pending /\ UNCHANGED <<setVars, fault>>

\* detach()
DetachIcon(h) ==
    /\ Running /\ Live(h)
    /\ \E g \in Garbage(h) : Apply(IconDetach(Cur, h, g))
    /\ Pending /\ UNCHANGED <<setVars, fault>>

SetName(h, v) ==
    /\ Running /\ Live(h)
    /\ \E g \in Garbage(h) : Apply(IconSetName(Cur, h, v, g))
    /\ Pending /\ UNCHANGED <<setVars, fault>>

SetRegExp(h, v) ==
    /\ Running /\ Live(h)
    /\ \E g \in Garbage(h) : Apply(IconSetRegExp(Cur, h, v, g))
    /\ Pending /\ UNCHANGED <<setVars, fault>>

SetText(h, v) ==
    /\ Running /\ Live(h)
    /\ \E g \in Garbage(h) : Apply(IconSetText(Cur, h, v, g))
    /\ Pending /\ UNCHANGED <<setVars, fault>>

SetSound(h, v) ==
    /\ Running /\ Live(h)
    /\ \E g \in Garbage(h) : Apply(IconSetSound(Cur, h, v, g))
    /\ Pending /\ UNCHANGED <<setVars, fault>>

SetImpix(h, v, doDetach) ==
    /\ Running /\ Live(h)
    /\ \E g \in Garbage(h) : Apply(IconSetImpix(Cur, h, v, doDetach, g))
    /\ Pending /\ UNCHANGED <<setVars, fault>>

SetAnim(h, fr, doDetach) ==
    /\ Running /\ Live(h)
    /\ \E g \in Garbage(h), pz \in PauseFlags(fr) :
          Apply(IconSetAnim(Cur, h, fr, doDetach, g, pz))
    /\ Pending /\ UNCHANGED <<setVars, fault>>

RemoveAnim(h, doDetach) ==
    /\ Running /\ Live(h)
    /\ \E g \in Garbage(h) : Apply(IconRemoveAnim(Cur, h, doDetach, g))
    /\ Pending /\ UNCHANGED <<setVars, fault>>

LoadFromData(h, fr, img, isAnim) ==
    /\ Running /\ Live(h)
    /\ \E g \in Garbage(h), pz \in PauseFlags(fr) :
          Apply(IconLoadFromData(Cur, h, fr, img, isAnim, g, pz))
    /\ Pending /\ UNCHANGED <<setVars, fault>>

StripFirstAnimFrame(h) ==
    /\ Running /\ Live(h)
    /\ \E g \in Garbage(h) : Apply(IconStripFirstAnimFrame(Cur, h, g))
    /\ Pending /\ UNCHANGED <<setVars, fault>>

Activated(h) ==
    /\ Running /\ Live(h)
    /\ D(Cur, h).activatedCount < MaxActivated
    /\ Apply(IconActivated(Cur, h))
    /\ unmatched' = [unmatched EXCEPT ![ih[h]] = @ + 1]
    /\ UNCHANGED <<setVars, fault>>

Stop(h) ==
    /\ Running /\ Live(h)
    /\ Apply(IconStop(Cur, h))
    /\ unmatched' = [unmatched EXCEPT ![ih[h]] = IF @ > 0 THEN @ - 1 ELSE 0]
    /\ UNCHANGED <<setVars, fault>>

\* the timer of an unpaused Anim shows the next frame
AnimTick(p) ==
    /\ Running /\ ip[p] # NoPriv /\ ip[p].anim # NoAnim
    /\ ~ip[p].anim.paused /\ numFrames(ip[p].anim) > 0
    /\ ip' = [ip EXCEPT ![p].anim.pos = (@ + 1) % numFrames(ip[p].anim)]
    /\ UNCHANGED <<ih, unmatched, setVars, fault>>

\* ------------------------------------------------------------------------
\* Icon handles and their mutators
\* ------------------------------------------------------------------------
InitIcon ==
    /\ ih = [h \in IconHandles |-> IF h = 1 THEN 1 ELSE 0]
    /\ ip = [p \in IconPrivIds |->
                IF p = 1 THEN connectInstance(IconPrivateNew, 1) ELSE NoPriv]
    /\ unmatched = [p \in IconPrivIds |-> 0]
    /\ SetIdle
    /\ fault = "none"

MutateScalar(h) ==
    \/ \E v \in Vals : SetName(h, v)
    \/ \E v \in Vals : SetRegExp(h, v)
    \/ \E v \in Vals : SetText(h, v)
    \/ \E v \in Vals : SetSound(h, v)
    \/ \E v \in Vals, dd \in BOOLEAN : SetImpix(h, v, dd)

MutateAnim(h) ==
    \/ \E fr \in AnimSamples, dd \in BOOLEAN : SetAnim(h, fr, dd)
    \/ \E dd \in BOOLEAN : RemoveAnim(h, dd)
    \/ \E fr \in AnimSamples, img \in Vals, isAnim \in BOOLEAN :
          LoadFromData(h, fr, img, isAnim)
    \/ StripFirstAnimFrame(h)

Mutate(h) == MutateScalar(h) \/ MutateAnim(h)

Handles ==
    \/ \E h \in IconHandles : NewIcon(h)
    \/ \E h \in IconHandles : DeleteIcon(h)
    \/ \E h, from \in IconHandles : CopyIcon(h, from)
    \/ \E h, from \in IconHandles : AssignIcon(h, from)

NextIcon == Handles \/ \E h \in IconHandles : MutateScalar(h)

NextIconAnim == Handles \/ \E h \in IconHandles : MutateAnim(h)

SpecIconAnim == InitIcon /\ [][NextIconAnim]_vars

SpecIcon == InitIcon /\ [][NextIcon]_vars

\* ------------------------------------------------------------------------
\* An animated Icon, its copies, activated() and stop()
\* ------------------------------------------------------------------------
InitAnim ==
    /\ \E fr \in {s \in AnimSamples : Len(s) >= 2}, pz \in BOOLEAN :
          LET W == IconSetAnim(IconCtor(World([h \in IconHandles |-> 0],
                                              [p \in IconPrivIds |-> NoPriv]), 1),
                               1, fr, TRUE, 0, pz)
          IN ih = W.ih /\ ip = W.ip
    /\ unmatched = [p \in IconPrivIds |-> 0]
    /\ SetIdle
    /\ fault = "none"

NextAnim ==
    \/ \E h, from \in IconHandles : CopyIcon(h, from)
    \/ \E h \in IconHandles : DeleteIcon(h)
    \/ \E h \in IconHandles, v \in Vals : SetName(h, v)
    \/ \E h \in IconHandles : Activated(h)
    \/ \E h \in IconHandles : Stop(h)
    \/ \E p \in IconPrivIds : AnimTick(p)

SpecAnim == InitAnim /\ [][NextAnim]_vars

\* ------------------------------------------------------------------------
\* Iconset::Private.  An Icon of the list is [ptr, name, d]: its address,
\* the name() of its data, and the Icon::Private it shares (0: data of its
\* own, made by load).  dict maps a name to the address stored under it,
\* 0 for a null pointer, -1 when the name is not a key.
\* ------------------------------------------------------------------------
DataName(k) == ((k - 1) % NumNames) + 1
CallerIcons == {[ptr |-> 0, name |-> DataName(k), d |-> k] : k \in 1..NumData}

\* Private(): init()
SetPrivateNew ==
    [count |-> 1, name |-> 0, filename |-> 0, info |-> 0,
     dict |-> [n \in Names |-> -1], list |-> <<>>]

\* the address of "new Icon" for the Icon that is appended under name n:
\* addresses only have to differ between the Icons of one list, and those
\* are appended under different names
NewPtr(n) == n

\* Private::remove
PrivRemove(P, name) ==
    IF P.dict[name] # -1
    THEN LET i == P.dict[name]
             Other(e) == e.ptr # i
         IN [P EXCEPT !.dict[name] = -1, !.list = SelectSeq(@, Other)]
    ELSE P

\* Private::append
PrivAppend(P, n, icon) ==
    LET P1 == IF P.dict[n] # -1 THEN PrivRemove(P, n) ELSE P
    IN [P1 EXCEPT !.dict[n] = icon.ptr, !.list = Append(@, icon)]

\* Private::clear
PrivClear(P) == [P EXCEPT !.dict = [n \in Names |-> -1], !.list = <<>>]

\* Private::setInformation
PrivSetInformation(P, from) ==
    [P EXCEPT !.name = from.name, !.filename = from.filename, !.info = from.info]

\* Private(const Private &from): every Icon is appended under its name()
RECURSIVE CopyIcons(_, _, _)
CopyIcons(P, src, k) ==
    IF k > Len(src) THEN P
    ELSE CopyIcons(PrivAppend(P, src[k].name, [src[k] EXCEPT !.ptr = NewPtr(src[k].name)]),
                   src, k + 1)

SetPrivateCopy(from) ==
    CopyIcons(PrivSetInformation(SetPrivateNew, from), from.list, 1)

\* the loop of Iconset::operator+= over a snapshot of i.d->list; dead holds
\* the Icons of the snapshot deleted so far, and reading one of them is a
\* use after free
RECURSIVE AddIcons(_, _, _, _, _)
AddIcons(P, src, k, self, dead) ==
    IF k > Len(src) THEN [P |-> P, uaf |-> FALSE]
    ELSE IF src[k].ptr \in dead THEN [P |-> P, uaf |-> TRUE]
    ELSE LET icon == [src[k] EXCEPT !.ptr = NewPtr(src[k].name)]
             gone == IF self /\ P.dict[icon.name] > 0 THEN {P.dict[icon.name]} ELSE {}
         IN AddIcons(PrivAppend(P, icon.name, icon), src, k + 1, self, dead \cup gone)

\* Iconset::icon: the non-const dict[name] makes name a key
PrivIconRet(P, name) ==
    IF \A n \in Names : P.dict[n] = -1 THEN 0
    ELSE IF P.dict[name] = -1 THEN 0 ELSE P.dict[name]

PrivIcon(P, name) ==
    IF \A n \in Names : P.dict[n] = -1 THEN P
    ELSE IF P.dict[name] = -1 THEN [P EXCEPT !.dict[name] = 0] ELSE P

\* the Icon at an address of the list
IconAt(P, i) == LET j == CHOOSE j \in 1..Len(P.list) : P.list[j].ptr = i IN P.list[j]

\* ------------------------------------------------------------------------
\* IconsetFactoryPrivate
\* ------------------------------------------------------------------------
InSeq(x, q) == \E j \in 1..Len(q) : q[j] = x

\* registerIconset
registerIconset(F, h) ==
    LET q == IF F.null THEN <<>> ELSE F.iconsets
    IN [F EXCEPT !.null = FALSE, !.iconsets = IF InSeq(h, q) THEN q ELSE Append(q, h)]

\* unregisterIconset
unregisterIconset(F, h) ==
    LET NotH(x) == x # h
        F1 == IF ~F.null /\ InSeq(h, F.iconsets)
              THEN [F EXCEPT !.iconsets = SelectSeq(@, NotH)] ELSE F
    IN IF F1.null \/ Len(F1.iconsets) = 0
       THEN [null |-> TRUE, iconsets |-> <<>>, emptyPixmap |-> FALSE]
       ELSE F1

\* ------------------------------------------------------------------------
\* Iconset handles; a world is the handles, the heap and the factory
\* ------------------------------------------------------------------------
SetWorld(h, p, f) == [sh |-> h, sp |-> p, fac |-> f]
CurSet == SetWorld(sh, sp, fac)
SD(W, h) == W.sp[W.sh[h]]
SetSD(W, h, P) == [W EXCEPT !.sp[W.sh[h]] = P]

FreeSetPriv(heap) ==
    CHOOSE p \in SetPrivIds :
        heap[p] = NoSet /\ \A q \in SetPrivIds : heap[q] = NoSet => p <= q

\* Q3Shared::deref followed by "delete d" when it returns true
SetDeref(heap, p) ==
    IF heap[p].count = 1 THEN [heap EXCEPT ![p] = NoSet]
    ELSE [heap EXCEPT ![p].count = @ - 1]

\* Iconset::Iconset()
IconsetCtor(W, h) ==
    LET p == FreeSetPriv(W.sp)
    IN [W EXCEPT !.sh[h] = p, !.sp[p] = SetPrivateNew]

\* Iconset::Iconset(const Iconset &from)
IconsetCopyCtor(W, h, from) ==
    LET p == W.sh[from]
    IN [W EXCEPT !.sh[h] = p, !.sp[p].count = @ + 1]

\* Iconset::~Iconset()
IconsetDtor(W, h) ==
    [sh |-> [W.sh EXCEPT ![h] = 0], sp |-> SetDeref(W.sp, W.sh[h]),
     fac |-> unregisterIconset(W.fac, h)]

\* Iconset::operator=, for from.d other than d, or d shared
IconsetAssign(W, h, from) ==
    LET heap1 == SetDeref(W.sp, W.sh[h])
        p == W.sh[from]
    IN [W EXCEPT !.sh[h] = p, !.sp = [heap1 EXCEPT ![p].count = @ + 1]]

\* Iconset::operator= with from.d = d and d unshared, up to "d = from.d":
\* deref() returns true and d is deleted, and d is set to from.d, the
\* Private just deleted; the d->ref() that follows writes to it
IconsetAssignSelf(W, h) == [W EXCEPT !.sp = SetDeref(W.sp, W.sh[h])]

\* Iconset::copy initialising h, the only handle of a copy of from's
\* Private; elide: the build constructs the local "is" in h, otherwise it
\* copies "is" to h and the destructor of "is" (handle 0) runs
\* unregisterIconset
IconsetCopy(W, h, from, elide) ==
    LET p == FreeSetPriv(W.sp)
    IN [sh |-> [W.sh EXCEPT ![h] = p],
        sp |-> [W.sp EXCEPT ![p] = SetPrivateCopy(SD(W, from))],
        fac |-> IF elide THEN W.fac ELSE unregisterIconset(W.fac, 0)]

\* Iconset::detach with Iconset::copy: "*this = copy()" leaves this as the
\* only handle of the copy, and the destructor of the temporary (handle 0)
\* runs unregisterIconset
IconsetDetach(W, h) ==
    IF SD(W, h).count > 1
    THEN LET old == W.sh[h]
             p == FreeSetPriv(W.sp)
         IN [sh |-> [W.sh EXCEPT ![h] = p],
             sp |-> [W.sp EXCEPT ![old].count = @ - 1, ![p] = SetPrivateCopy(W.sp[old])],
             fac |-> unregisterIconset(W.fac, 0)]
    ELSE W

\* Iconset::operator+=; the result is the world and whether a deleted Icon
\* was read
IconsetAdd(W, h, i) ==
    LET W1 == IconsetDetach(W, h)
        r == AddIcons(SD(W1, h), SD(W1, i).list, 1, W1.sh[i] = W1.sh[h], {})
    IN [W |-> SetSD(W1, h, r.P), uaf |-> r.uaf]

\* Iconset::clear
IconsetClear(W, h) == LET W1 == IconsetDetach(W, h) IN SetSD(W1, h, PrivClear(SD(W1, h)))

\* Iconset::icon
IconsetIconRet(W, h, name) == PrivIconRet(SD(W, h), name)
IconsetIcon(W, h, name) == SetSD(W, h, PrivIcon(SD(W, h), name))

\* Iconset::setIcon
IconsetSetIcon(W, h, name, icon) ==
    LET W1 == IconsetDetach(W, h)
        newIcon == [icon EXCEPT !.ptr = NewPtr(name)]
    IN SetSD(W1, h, PrivAppend(PrivRemove(SD(W1, h), name), name, newIcon))

\* Iconset::removeIcon
IconsetRemoveIcon(W, h, name) ==
    LET W1 == IconsetDetach(W, h) IN SetSD(W1, h, PrivRemove(SD(W1, h), name))

\* Iconset::setFileName, Iconset::setInfo
IconsetSetFileName(W, h, f) == SetSD(W, h, [SD(W, h) EXCEPT !.filename = f])
IconsetSetInfo(W, h, i) == SetSD(W, h, [SD(W, h) EXCEPT !.info = i])

\* Iconset::setInformation
IconsetSetInformation(W, h, from) ==
    LET W1 == IconsetDetach(W, h)
    IN SetSD(W1, h, PrivSetInformation(SD(W1, h), SD(W1, from)))

\* Private::load over the children of <icondef>: "meta" sets the name,
\* "icon" appends the Icon under its name when its graphic loads, "x" sets
\* the info; the result is the Private and the success flag
RECURSIVE PrivLoad(_, _, _, _)
PrivLoad(P, nodes, k, success) ==
    IF k > Len(nodes) THEN [P |-> P, success |-> success]
    ELSE LET e == nodes[k]
         IN IF e.tag = "meta" THEN PrivLoad([P EXCEPT !.name = e.v], nodes, k + 1, success)
            ELSE IF e.tag = "x" THEN PrivLoad([P EXCEPT !.info = e.v], nodes, k + 1, success)
            ELSE IF e.ok
                 THEN PrivLoad(PrivAppend(P, e.v, [ptr |-> NewPtr(e.v), name |-> e.v, d |-> 0]),
                               nodes, k + 1, success)
                 ELSE PrivLoad(P, nodes, k + 1, FALSE)

\* Iconset::load; doc.valid: icondef.xml is there and is an <icondef> document
IconsetLoad(W, h, dir, doc) ==
    LET W1 == IconsetDetach(W, h)
    IN IF doc.valid
       THEN LET r == PrivLoad(SD(W1, h), doc.nodes, 1, TRUE)
            IN SetSD(W1, h, IF r.success THEN [r.P EXCEPT !.filename = dir] ELSE r.P)
       ELSE W1

IconsetLoadRet(doc) ==
    doc.valid /\ \A k \in 1..Len(doc.nodes) : doc.nodes[k].tag = "icon" => doc.nodes[k].ok

\* Iconset::addToFactory, Iconset::removeFromFactory
IconsetAddToFactory(W, h) == [W EXCEPT !.fac = registerIconset(@, h)]
IconsetRemoveFromFactory(W, h) == [W EXCEPT !.fac = unregisterIconset(@, h)]

\* IconsetFactoryPrivate::icon: the loop over iconsets from position k; the
\* result is the world, the Iconset that has the Icon (0: none) and the
\* address of the Icon in it
\* the loop without its "break": the result is that of the last Iconset
RECURSIVE FactoryIconNoBreak(_, _, _)
FactoryIconNoBreak(W, name, k) ==
    IF k > Len(W.fac.iconsets) THEN [W |-> W, set |-> 0, ptr |-> 0]
    ELSE LET h == W.fac.iconsets[k]
             i == IconsetIconRet(W, h, name)
             W1 == IconsetIcon(W, h, name)
         IN IF k = Len(W.fac.iconsets)
            THEN [W |-> W1, set |-> IF i # 0 THEN h ELSE 0, ptr |-> i]
            ELSE FactoryIconNoBreak(W1, name, k + 1)

RECURSIVE FactoryIconFrom(_, _, _)
FactoryIconFrom(W, name, k) ==
    IF k > Len(W.fac.iconsets) THEN [W |-> W, set |-> 0, ptr |-> 0]
    ELSE LET h == W.fac.iconsets[k]
             i == IconsetIconRet(W, h, name)
             W1 == IconsetIcon(W, h, name)
         IN IF i # 0 THEN [W |-> W1, set |-> h, ptr |-> i]
            ELSE FactoryIconFrom(W1, name, k + 1)

FactoryIcon(W, name) ==
    IF W.fac.null THEN [W |-> W, set |-> 0, ptr |-> 0]
    ELSE FactoryIconFrom(W, name, 1)

\* IconsetFactory::iconPtr
iconPtr(W, name) == FactoryIcon(W, name)

\* IconsetFactory::iconPixmap: the empty pixmap is made when no Icon is found
iconPixmap(W, name) ==
    LET r == iconPtr(W, name)
    IN IF r.ptr # 0 THEN r.W ELSE [r.W EXCEPT !.fac.emptyPixmap = TRUE]

\* IconsetFactory::icons, for iconsets other than 0
RECURSIVE NamesOf(_, _)
NamesOf(list, k) == IF k > Len(list) THEN <<>> ELSE <<list[k].name>> \o NamesOf(list, k + 1)

RECURSIVE IconsFrom(_, _)
IconsFrom(W, k) ==
    IF k > Len(W.fac.iconsets) THEN <<>>
    ELSE NamesOf(SD(W, W.fac.iconsets[k]).list, 1) \o IconsFrom(W, k + 1)

icons(W) == IconsFrom(W, 1)

\* ------------------------------------------------------------------------
\* Actions on Iconset handles and on the factory
\* ------------------------------------------------------------------------
ApplySet(W) == sh' = W.sh /\ sp' = W.sp /\ fac' = W.fac

LiveSet(h) == sh[h] # 0

\* the names Icons are stored under, after an operation on h that leaves
\* the names S in its Iconset
Stored(h, S) ==
    stored' = [p \in SetPrivIds |->
                 IF sp'[p] = NoSet THEN {}
                 ELSE IF sh'[h] = p THEN S ELSE stored[p]]

Keep(h) == Stored(h, IF sh[h] = 0 THEN {} ELSE stored[sh[h]])

\* the order in which the Iconsets of the factory were added
Registered(F) == IF F.null THEN {} ELSE {F.iconsets[k] : k \in 1..Len(F.iconsets)}
Order ==
    before' = {pr \in before : pr[1] \in Registered(fac') /\ pr[2] \in Registered(fac')}
                \cup {<<g, h>> \in Registered(fac) \X (Registered(fac') \ Registered(fac)) : TRUE}

Rest == Order /\ UNCHANGED <<iconVars, fault>>

\* the documents handed to load
LoadSamples ==
    {[valid |-> FALSE, nodes |-> <<>>],
     [valid |-> TRUE, nodes |-> <<[tag |-> "meta", v |-> 1, ok |-> TRUE],
                                  [tag |-> "icon", v |-> 1, ok |-> TRUE],
                                  [tag |-> "x", v |-> 1, ok |-> TRUE]>>],
     [valid |-> TRUE, nodes |-> <<[tag |-> "icon", v |-> 2, ok |-> TRUE],
                                  [tag |-> "icon", v |-> 1, ok |-> FALSE]>>]}

LoadedNames(doc) ==
    IF doc.valid
    THEN {doc.nodes[k].v : k \in {j \in 1..Len(doc.nodes) :
                                     doc.nodes[j].tag = "icon" /\ doc.nodes[j].ok}}
    ELSE {}

NewSet(h) ==
    /\ Running /\ ~LiveSet(h)
    /\ ApplySet(IconsetCtor(CurSet, h)) /\ Keep(h) /\ Rest

DeleteSet(h) ==
    /\ Running /\ LiveSet(h)
    /\ ApplySet(IconsetDtor(CurSet, h)) /\ Keep(h) /\ Rest

CopySet(h, from) ==
    /\ Running /\ ~LiveSet(h) /\ LiveSet(from)
    /\ ApplySet(IconsetCopyCtor(CurSet, h, from)) /\ Stored(h, stored[sh[from]]) /\ Rest

\* operator=; "a = a" on an unshared Iconset deletes d and then uses it
AssignSet(h, from) ==
    /\ Running /\ LiveSet(h) /\ LiveSet(from)
    /\ IF h = from /\ SD(CurSet, h).count = 1
       THEN /\ ApplySet(IconsetAssignSelf(CurSet, h)) /\ Stored(h, {}) /\ Order
            /\ fault' = "use-after-free" /\ UNCHANGED iconVars
       ELSE ApplySet(IconsetAssign(CurSet, h, from)) /\ Stored(h, stored[sh[from]]) /\ Rest

\* "new = from.copy()"
CopyOfSet(h, from) ==
    /\ Running /\ ~LiveSet(h) /\ LiveSet(from)
    /\ \E elide \in BOOLEAN : ApplySet(IconsetCopy(CurSet, h, from, elide))
    /\ Stored(h, stored[sh[from]]) /\ Rest

\* detach()
DetachSet(h) ==
    /\ Running /\ LiveSet(h)
    /\ ApplySet(IconsetDetach(CurSet, h)) /\ Keep(h) /\ Rest

SetIcon(h, name, icon) ==
    /\ Running /\ LiveSet(h)
    /\ ApplySet(IconsetSetIcon(CurSet, h, name, icon))
    /\ Stored(h, stored[sh[h]] \cup {name}) /\ Rest

RemoveIcon(h, name) ==
    /\ Running /\ LiveSet(h)
    /\ ApplySet(IconsetRemoveIcon(CurSet, h, name))
    /\ Stored(h, stored[sh[h]] \ {name}) /\ Rest

Clear(h) ==
    /\ Running /\ LiveSet(h)
    /\ ApplySet(IconsetClear(CurSet, h)) /\ Stored(h, {}) /\ Rest

\* operator+=: the Icons of i are stored under their name()
AddSet(h, i) ==
    /\ Running /\ LiveSet(h) /\ LiveSet(i)
    /\ LET r == IconsetAdd(CurSet, h, i)
       IN IF r.uaf
          THEN fault' = "use-after-free" /\ UNCHANGED <<iconVars, setVars>>
          ELSE /\ ApplySet(r.W)
               /\ Stored(h, stored[sh[h]] \cup
                              {SD(CurSet, i).list[k].name : k \in 1..Len(SD(CurSet, i).list)})
               /\ Rest

Load(h, dir, doc) ==
    /\ Running /\ LiveSet(h)
    /\ ApplySet(IconsetLoad(CurSet, h, dir, doc))
    /\ Stored(h, stored[sh[h]] \cup LoadedNames(doc)) /\ Rest

\* Iconset::icon(name)
LookUp(h, name) ==
    /\ Running /\ LiveSet(h)
    /\ ApplySet(IconsetIcon(CurSet, h, name)) /\ Keep(h) /\ Rest

SetFileName(h, f) ==
    /\ Running /\ LiveSet(h)
    /\ ApplySet(IconsetSetFileName(CurSet, h, f)) /\ Keep(h) /\ Rest

SetInfo(h, i) ==
    /\ Running /\ LiveSet(h)
    /\ ApplySet(IconsetSetInfo(CurSet, h, i)) /\ Keep(h) /\ Rest

SetInformation(h, from) ==
    /\ Running /\ LiveSet(h) /\ LiveSet(from)
    /\ ApplySet(IconsetSetInformation(CurSet, h, from)) /\ Keep(h) /\ Rest

AddToFactory(h) ==
    /\ Running /\ LiveSet(h)
    /\ ApplySet(IconsetAddToFactory(CurSet, h)) /\ UNCHANGED stored /\ Rest

RemoveFromFactory(h) ==
    /\ Running /\ LiveSet(h)
    /\ ApplySet(IconsetRemoveFromFactory(CurSet, h)) /\ UNCHANGED stored /\ Rest

\* IconsetFactory::iconPtr(name)
IconPtr(name) ==
    /\ Running
    /\ ApplySet(iconPtr(CurSet, name).W) /\ UNCHANGED stored /\ Rest

IconPixmap(name) ==
    /\ Running
    /\ ApplySet(iconPixmap(CurSet, name)) /\ UNCHANGED stored /\ Rest

\* IconsetFactory::icons(): "*iconsets" with iconsets = 0 reads through a
\* null pointer
Icons ==
    /\ Running
    /\ fac.null
    /\ fault' = "null-dereference"
    /\ UNCHANGED <<iconVars, setVars>>

InitSet == IconIdle /\ SetIdle /\ fault = "none"

SetHandlesNext ==
    \/ \E h \in SetHandles : NewSet(h)
    \/ \E h \in SetHandles : DeleteSet(h)
    \/ \E h, from \in SetHandles : CopySet(h, from)
    \/ \E h, from \in SetHandles : AssignSet(h, from)

SetIconsNext ==
    \/ \E h \in SetHandles, n \in Names, icon \in CallerIcons : SetIcon(h, n, icon)
    \/ \E h \in SetHandles, n \in Names : RemoveIcon(h, n)
    \/ \E h \in SetHandles : Clear(h)
    \/ \E h, i \in SetHandles : AddSet(h, i)
    \/ \E h \in SetHandles, doc \in LoadSamples : Load(h, 1, doc)
    \/ \E h \in SetHandles, n \in Names : LookUp(h, n)

SetInfoNext ==
    \/ \E h \in SetHandles, f \in Vals : SetFileName(h, f)
    \/ \E h \in SetHandles, i \in Vals : SetInfo(h, i)
    \/ \E h, from \in SetHandles : SetInformation(h, from)

FactoryNext ==
    \/ \E h \in SetHandles : AddToFactory(h)
    \/ \E h \in SetHandles : RemoveFromFactory(h)
    \/ \E n \in Names : IconPtr(n)
    \/ \E n \in Names : IconPixmap(n)
    \/ Icons

NextSet == SetHandlesNext \/ SetIconsNext
SpecSet == InitSet /\ [][NextSet]_vars

NextCow == SetHandlesNext \/ SetIconsNext \/ SetInfoNext
SpecCow == InitSet /\ [][NextCow]_vars

FactoryIconsNext ==
    \/ \E h \in SetHandles, n \in Names, icon \in CallerIcons : SetIcon(h, n, icon)
    \/ \E h \in SetHandles, n \in Names : RemoveIcon(h, n)

NextFactory == SetHandlesNext \/ FactoryIconsNext \/ FactoryNext
SpecFactory == InitSet /\ [][NextFactory]_vars

\* the handles of both types: construction, copy construction, assignment,
\* destruction, copy() and detach(), called directly and by a mutator
IconCopyNext ==
    \/ \E h, from \in IconHandles : CopyOfIcon(h, from)
    \/ \E h \in IconHandles : DetachIcon(h)
    \/ \E h \in IconHandles, v \in Vals : SetName(h, v)

SetCopyNext ==
    \/ \E h, from \in SetHandles : CopyOfSet(h, from)
    \/ \E h \in SetHandles : DetachSet(h)
    \/ \E h \in SetHandles : Clear(h)

NextRef == Handles \/ IconCopyNext \/ SetHandlesNext \/ SetCopyNext
SpecRef == InitSet /\ [][NextRef]_vars

\* ------------------------------------------------------------------------
\* Properties of Icon
\* ------------------------------------------------------------------------
\* what the getters of an Icon return
IconView(W, k) ==
    LET P == D(W, k)
    IN [name |-> P.name, regExp |-> P.regExp, text |-> P.text, sound |-> P.sound,
        impix |-> P.impix, anim |-> P.anim.frames]

\* C1: after b was made a copy of a, a change made through one of them by
\* an Icon mutator is observed through the other as well: both handles
\* show the same data after the mutator
C1_SharedChange ==
    [][\A h, k \in IconHandles :
          (Live(h) /\ Live(k) /\ ih[h] = ih[k] /\ Mutate(h))
              => IconView(World(ih', ip'), k) = IconView(World(ih', ip'), h)]_vars

\* C2: for an animated Icon, after activated() or stop(): while an
\* activated() is not matched by a stop() the animation is unpaused and
\* its update signal is connected to animUpdate exactly once; once every
\* activated() is matched the animation is paused and restarted
C2_ActivatedStop ==
    [][\A h \in IconHandles :
          (Live(h) /\ D(Cur, h).anim # NoAnim /\ (Activated(h) \/ Stop(h)))
              => LET a == ip'[ih[h]].anim
                 IN IF unmatched'[ih[h]] > 0
                    THEN ~a.paused /\ a.upd = 1
                    ELSE a.paused /\ a.pos = 0]_vars

\* ------------------------------------------------------------------------
\* Properties of Iconset
\* ------------------------------------------------------------------------
NextWorld == SetWorld(sh', sp', fac')
NoIcon == [name |-> 0, d |-> -1]

\* the Icon that icon(name) returns, by its name() and its data
IconUnder(P, n) ==
    IF PrivIconRet(P, n) = 0 THEN NoIcon
    ELSE LET e == IconAt(P, PrivIconRet(P, n)) IN [name |-> e.name, d |-> e.d]

\* what count(), icon(name), name(), fileName() and info() return
SetView(W, g) ==
    LET P == SD(W, g)
    IN [count |-> Len(P.list),
        ptr |-> [n \in Names |-> PrivIconRet(P, n)],
        icon |-> [n \in Names |-> IconUnder(P, n)],
        name |-> P.name, fileName |-> P.filename, info |-> P.info]

SetMutator(h) ==
    \/ \E n \in Names, icon \in CallerIcons : SetIcon(h, n, icon)
    \/ \E n \in Names : RemoveIcon(h, n)
    \/ Clear(h)
    \/ \E i \in SetHandles : AddSet(h, i)
    \/ \E doc \in LoadSamples : Load(h, 1, doc)
    \/ \E from \in SetHandles : SetInformation(h, from)
    \/ \E f \in Vals : SetFileName(h, f)
    \/ \E i \in Vals : SetInfo(h, i)

\* C3: after b was made a shared copy of a, a change made through one
\* handle by an Iconset mutator is not visible through the other handle
C3_CopyOnWrite ==
    [][\A h, g \in SetHandles :
          (h # g /\ LiveSet(h) /\ LiveSet(g) /\ sh[h] = sh[g] /\ SetMutator(h))
              => SetView(NextWorld, g) = SetView(CurSet, g)]_vars

\* C4: icon(name) returns a non-null pointer exactly when an Icon is
\* stored under name in the Iconset
C4_IconIffStored ==
    \A h \in SetHandles : (Running /\ LiveSet(h)) =>
        \A n \in Names : (IconsetIconRet(CurSet, h, n) # 0) <=> (n \in stored[sh[h]])

\* C5: after setIcon(name, icon), icon(name) shares the data of icon and
\* is the last of the list, count() has grown by one if name was absent and
\* is unchanged if it was present, and the Icons under other names are
\* untouched
C5_SetIcon ==
    [][\A h \in SetHandles, n \in Names, icon \in CallerIcons :
          SetIcon(h, n, icon)
              => LET P0 == SD(CurSet, h)
                     P1 == SD(NextWorld, h)
                     r == PrivIconRet(P1, n)
                 IN /\ r # 0
                    /\ IconAt(P1, r).d = icon.d
                    /\ P1.list[Len(P1.list)].ptr = r
                    /\ Len(P1.list) = Len(P0.list) + (IF PrivIconRet(P0, n) = 0 THEN 1 ELSE 0)
                    /\ \A m \in Names \ {n} : IconUnder(P1, m) = IconUnder(P0, m)]_vars

\* the Icons of a list in iteration order, by name() and data
RECURSIVE IconsOf(_, _)
IconsOf(list, k) ==
    IF k > Len(list) THEN <<>>
    ELSE <<[name |-> list[k].name, d |-> list[k].d]>> \o IconsOf(list, k + 1)

\* C6: after removeIcon(name), icon(name) is 0, count() has dropped by one
\* if name was present and is unchanged if it was absent, and the remaining
\* Icons keep their order
C6_RemoveIcon ==
    [][\A h \in SetHandles, n \in Names :
          RemoveIcon(h, n)
              => LET P0 == SD(CurSet, h)
                     P1 == SD(NextWorld, h)
                     Other(e) == e.ptr # PrivIconRet(P0, n)
                 IN /\ PrivIconRet(P1, n) = 0
                    /\ Len(P1.list) = Len(P0.list) - (IF PrivIconRet(P0, n) = 0 THEN 0 ELSE 1)
                    /\ IconsOf(P1.list, 1) = IconsOf(SelectSeq(P0.list, Other), 1)]_vars

\* C7: no two Icons of the list of an Iconset have the same name()
C7_UniqueNames ==
    \A h \in SetHandles : (Running /\ LiveSet(h)) =>
        LET list == SD(CurSet, h).list
        IN \A i, j \in 1..Len(list) : i # j => list[i].name # list[j].name

\* ------------------------------------------------------------------------
\* Properties of IconsetFactory
\* ------------------------------------------------------------------------
\* the Iconsets of the factory that hold an Icon under name n
Holders(n) == {h \in Registered(fac) : SD(CurSet, h).dict[n] > 0}

\* C8: iconPtr(name) returns the Icon stored under name in the Iconset that
\* was added to the factory before every other Iconset holding an Icon under
\* name, and 0 exactly when no Iconset of the factory holds one
C8_IconPtr ==
    \A n \in Names : Running =>
        LET r == iconPtr(CurSet, n)
        IN IF Holders(n) = {} THEN r.set = 0 /\ r.ptr = 0
           ELSE /\ r.set \in Holders(n)
                /\ \A g \in Holders(n) \ {r.set} : <<r.set, g>> \in before
                /\ r.ptr = SD(CurSet, r.set).dict[n]

\* two Iconsets of the factory hold an Icon under the same name, the one
\* added first is the second handle, and a lookup has already made the
\* other name a key of it
C8_Witness ==
    Running /\ \E n \in Names :
        /\ Holders(n) = {1, 2} /\ <<2, 1>> \in before
        /\ iconPtr(CurSet, n).set = 2
        /\ \E m \in Names : SD(CurSet, 2).dict[m] = 0

\* how often x occurs in a sequence
Occurs(q, x) == Cardinality({k \in 1..Len(q) : q[k] = x})

RECURSIVE Sum(_, _)
Sum(f, S) == IF S = {} THEN 0 ELSE LET x == CHOOSE x \in S : TRUE IN f[x] + Sum(f, S \ {x})

\* C9: icons() returns the names of all Icons of the Iconsets of the
\* factory, and the empty list when the factory has no Iconset
C9_Icons ==
    /\ fault # "null-dereference"
    /\ (Running /\ ~fac.null) =>
          \A n \in Names :
              Occurs(icons(CurSet), n) =
                  Sum([h \in SetHandles |-> IF h \in Registered(fac)
                                            THEN Occurs(NamesOf(SD(CurSet, h).list, 1), n)
                                            ELSE 0], SetHandles)

\* C10: for every name n that icons() lists, iconPtr(n) returns an Icon
\* whose name() is n
C10_ListedNamesResolve ==
    (Running /\ ~fac.null) =>
        \A k \in 1..Len(icons(CurSet)) :
            LET n == icons(CurSet)[k]
                r == iconPtr(CurSet, n)
            IN r.ptr # 0 /\ IconAt(SD(CurSet, r.set), r.ptr).name = n

\* ------------------------------------------------------------------------
\* Properties of the reference counts
\* ------------------------------------------------------------------------
\* the live handles whose d points to the Private p
IconHandlesOf(p) == {h \in IconHandles : ih[h] = p}
SetHandlesOf(p) == {h \in SetHandles : sh[h] = p}

\* C11: for Icon and for Iconset, in every state reached by construction,
\* copy construction, assignment (of a handle to itself too), detach,
\* copy() and destruction: the count of each Private is the number of live
\* handles whose d points to it, a Private is deleted exactly when that
\* number is 0, and no live handle points to a deleted Private
C11_ExactCounts ==
    /\ \A p \in IconPrivIds :
          /\ ip[p] # NoPriv => ip[p].count = Cardinality(IconHandlesOf(p))
          /\ (ip[p] = NoPriv) <=> (IconHandlesOf(p) = {})
    /\ \A h \in IconHandles : Live(h) => ip[ih[h]] # NoPriv
    /\ \A p \in SetPrivIds :
          /\ sp[p] # NoSet => sp[p].count = Cardinality(SetHandlesOf(p))
          /\ (sp[p] = NoSet) <=> (SetHandlesOf(p) = {})
    /\ \A h \in SetHandles : LiveSet(h) => sp[sh[h]] # NoSet

====
